---------------------------- MODULE Spec2Model ----------------------------
(***************************************************************************)
(* Model of src/server.js: the wallet challenge/response authenticator     *)
(* (POST /signup, POST /verify) and the token + membership-oracle gate     *)
(* (GET /protected, /api/v0/add, /approved-wallets, /submitted-wallets),   *)
(* the public forward /api/v0/cat and the indexing-API adapter.            *)
(*                                                                         *)
(* Cryptography is symbolic: sha1 and the HMAC of a token are injective    *)
(* constructors, a signature is the pair (signer, signed message), and     *)
(* recovering a signature over a different message yields an address       *)
(* nobody holds the key of.                                                *)
(***************************************************************************)
EXTENDS Naturals, Sequences, FiniteSets, TLC

VARIABLES
  SECRET,          \* process.env.SECRET, the nonce-salting secret
  JWT_SECRET_KEY,  \* process.env.JWT_SECRET_KEY, the token-signing key
  now,             \* the clock, in seconds (Math.floor(Date.now() / 1000))
  isGranted,       \* the on-chain allow-list: wallet id -> BOOLEAN
  isAdmin,         \* the on-chain admin role: wallet id -> BOOLEAN
  issued,          \* the nonces POST /signup has answered with
  held,            \* the token a client keeps from POST /verify
  inflight,        \* the gated request awaiting the oracle's answer
  seen,            \* the oracle's answers so far to requests with the held token
  req,             \* the request the step just taken handled
  res              \* the response written by the step just taken

vars == <<SECRET, JWT_SECRET_KEY, now, isGranted, isAdmin, isAdmin, issued, held, inflight, seen, req, res>>

---------------------------------------------------------------------------
(* Bounds of the model *)

\* the clock is observed around each day boundary up to this many days
MaxDays == 1

(* Program constants *)

\* expiresIn: '1d', in seconds
OneDay == 86400

Wallets == {"A", "B"}
Secrets == {"s1", "s2"}
Keys == {"k1", "k2"}

\* the instants at which the clock is observed: the start, and the second
\* before, at and after every day boundary
ClockPoints ==
  {0} \cup {d * OneDay + k - 1 : d \in 1..MaxDays, k \in 0..2}

---------------------------------------------------------------------------
(* Values *)

\* a wallet address string: whose it is and its letter case
\* "checksum" is the EIP-55 mixed case, "badsum" a mixed case that is not
Forms == {"lower", "upper", "checksum", "badsum"}
Addr(id, form) == [id |-> id, form |-> form]
Undefined == Addr("undefined", "none")
\* a truthy string that is no address at all
NotAnAddress == Addr("hello", "none")
\* the address recovered from a signature over another message
Junk == Addr("junk", "checksum")

\* String.prototype.toLowerCase on an address string
ToLowerCase(a) == IF a.form \in Forms THEN Addr(a.id, "lower") ELSE a

\* ethers.isAddress: all-lowercase, all-uppercase or correctly checksummed hex
IsAddress(a) == a.id \in Wallets /\ a.form \in {"lower", "upper", "checksum"}

\* sha1 hex digest of `${address}:${secret}`, an injective constructor
Sha1(a, secret) == [kind |-> "sha1", id |-> a.id, form |-> a.form, secret |-> secret]
NoNonce == [kind |-> "absent", id |-> "", form |-> "", secret |-> ""]
GarbageNonce == [kind |-> "garbage", id |-> "", form |-> "", secret |-> ""]

\* a signed message: who signed which nonce string
Sig(signer, msg) == [kind |-> "sig", signer |-> signer, msg |-> msg]
NoSig == [kind |-> "absent", signer |-> "", msg |-> NoNonce]
MalformedSig == [kind |-> "malformed", signer |-> "", msg |-> NoNonce]

\* a JSON web token: payload {walletAddress, iat, exp} and the key of its HMAC
Jwt(a, iat, exp, key) == [kind |-> "jwt", walletAddress |-> a, iat |-> iat, exp |-> exp, key |-> key]
NoToken == [kind |-> "absent", walletAddress |-> Undefined, iat |-> 0, exp |-> 0, key |-> ""]
\* the empty string after "Bearer ", and a string that is no JSON web token
EmptyToken == [NoToken EXCEPT !.kind = "empty"]
GarbageToken == [NoToken EXCEPT !.kind = "garbage"]

\* req.headers.authorization: absent, one word without a space, or two words
NoHeader == [scheme |-> "none", token |-> NoToken]
BareHeader == [scheme |-> "bare", token |-> NoToken]
Bearer(token) == [scheme |-> "bearer", token |-> token]

\* class HttpError: message and numeric code; code 0 is an error without a code,
\* strcode a code that is not a number (ethers' 'CALL_EXCEPTION')
HttpError(message, code) == [message |-> message, code |-> code, strcode |-> ""]
NoError == [message |-> "", code |-> 0, strcode |-> ""]

---------------------------------------------------------------------------
(* Requests, and the context a chain of middleware runs on *)

Request(route, walletAddress, nonce, signedMessage, authorization) ==
  [route |-> route, walletAddress |-> walletAddress, nonce |-> nonce,
   signedMessage |-> signedMessage, authorization |-> authorization]
NoRequest == Request("", Undefined, NoNonce, NoSig, NoHeader)

\* req.body, req.headers, res.locals.address, the locals of the gate (decoded,
\* and oracle, what the membership oracle returned), graph (how the call of the
\* indexing API ended) and the response: status 0 is no response yet, error is
\* the error handed to next(err), steps lists what ran in the order it ran,
\* uncaught names an exception that left a handler instead of reaching next(err)
Context(r) ==
  [walletAddress |-> r.walletAddress, nonce |-> r.nonce, signedMessage |-> r.signedMessage,
   authorization |-> r.authorization, address |-> Undefined, decoded |-> NoToken, oracle |-> "",
   graph |-> "", error |-> NoError,
   status |-> 0, message |-> "", outNonce |-> NoNonce, outToken |-> NoToken,
   steps |-> <<>>, uncaught |-> ""]
NoResponse == Context(NoRequest)

Ran(ctx, step) == [ctx EXCEPT !.steps = Append(@, step)]

\* what a middleware hands back: the context, and whether the chain goes on
Continue(ctx) == [ctx |-> ctx, continue |-> TRUE]
Stop(ctx) == [ctx |-> ctx, continue |-> FALSE]

---------------------------------------------------------------------------
(* The centralized responder, app.use((err, req, res, next) => ...) *)

\* err.code || 500 and err.message || 'Something went wrong'.  A status that
\* is not a number makes res.status(..).send(..) throw, and the framework's
\* default handler answers 500 with its own text.
errorHandler(err) ==
  IF err.strcode # ""
    THEN [status |-> 500, message |-> "Internal Server Error"]
    ELSE [status  |-> IF err.code # 0 THEN err.code ELSE 500,
          message |-> IF err.message # "" THEN err.message ELSE "Something went wrong"]

\* next(err): the responder answers, unless a response was already sent
NextErr(ctx, err) ==
  LET r == errorHandler(err)
  IN IF ctx.status # 0
       THEN [Ran(ctx, "errorHandler") EXCEPT !.uncaught = "ERR_HTTP_HEADERS_SENT"]
       ELSE [Ran(ctx, "errorHandler") EXCEPT !.status = r.status, !.message = r.message,
                                             !.error = err]

\* an exception thrown in an async middleware: the promise rejects, nothing
\* of the handler runs after it and nothing catches it
Throw(ctx, name) == [ctx EXCEPT !.uncaught = IF @ = "" THEN name ELSE @]

---------------------------------------------------------------------------
(* POST /signup: validateWalletAddress, transformWalletAddress, createNonce *)

validateWalletAddress(ctx) ==
  LET c == Ran(ctx, "validateWalletAddress")
  IN IF c.walletAddress = Undefined
       THEN Stop(NextErr(c, HttpError("Missing wallet address", 400)))
       ELSE IF ~IsAddress(c.walletAddress)
         THEN Stop(NextErr(c, HttpError("Invalid wallet address", 400)))
         ELSE Continue(c)

\* undefined.toLowerCase() throws a TypeError out of a synchronous middleware,
\* which the framework hands to the responder
transformWalletAddress(ctx) ==
  LET c == Ran(ctx, "transformWalletAddress")
  IN IF c.walletAddress = Undefined
       THEN Stop(NextErr(c, [message |-> "TypeError", code |-> 0, strcode |-> ""]))
       ELSE Continue([c EXCEPT !.walletAddress = ToLowerCase(@)])

\* generateNonce as it would be with the address left out of the digest
generateNonceNoAddress(address) == Sha1(Addr("A", "lower"), SECRET)

\* generateNonce as it would be without address.toLowerCase()
generateNonceNoLower(address) == Sha1(address, SECRET)

\* generateNonce as it would be with a salt that is not process.env.SECRET
generateNonceNoSecret(address) == Sha1(ToLowerCase(address), "s1")

\* generateNonce: sha1 of the lowercased address and the secret
generateNonce(address) == Sha1(ToLowerCase(address), SECRET)

createNonce(ctx) ==
  LET c == Ran(ctx, "generateNonce")
  IN IF c.walletAddress = Undefined
       THEN Stop(NextErr(c, [message |-> "TypeError", code |-> 0, strcode |-> ""]))
       ELSE Stop([Ran(c, "send") EXCEPT !.status = 200,
                                        !.outNonce = generateNonce(c.walletAddress)])

\* the route as it would be with the address lowercased before it is validated
SignupRouteTransformFirst ==
  <<"transformWalletAddress", "validateWalletAddress", "createNonce">>

\* app.post('/signup', ...)
SignupRoute == <<"validateWalletAddress", "transformWalletAddress", "createNonce">>

---------------------------------------------------------------------------
(* POST /verify: validateVerificationParameters, verifyMessage, the handler *)

\* validateVerificationParameters as it would be without the second check
validateVerificationParametersNonceOnly(ctx) ==
  LET c == Ran(ctx, "validateVerificationParameters")
  IN IF c.nonce = NoNonce
       THEN Stop(NextErr(c, HttpError("Nonce not provided", 400)))
       ELSE Continue(c)

validateVerificationParameters(ctx) ==
  LET c == Ran(ctx, "validateVerificationParameters")
  IN IF c.nonce = NoNonce
       THEN Stop(NextErr(c, HttpError("Nonce not provided", 400)))
       ELSE IF c.signedMessage = NoSig
         THEN Stop(NextErr(c, HttpError("Signed message not provided", 400)))
         ELSE Continue(c)

\* ethers.verifyMessage: the checksummed address of the signer when the
\* signature covers exactly this nonce string
Recover(nonce, signedMessage) ==
  IF signedMessage.msg = nonce THEN Addr(signedMessage.signer, "checksum") ELSE Junk

\* getAddressFromMessage: on a recovery error it calls next(err) and returns
\* what next returned, undefined, to its caller
getAddressFromMessage(ctx) ==
  LET c == Ran(ctx, "getAddressFromMessage")
  IN IF c.signedMessage.kind # "sig"
       THEN [ctx |-> NextErr(c, HttpError("Failed to verify message", 400)),
             address |-> Undefined]
       ELSE [ctx |-> c, address |-> Recover(c.nonce, c.signedMessage)]

\* verifyMessage as it would be without the comparison of the nonces
verifyMessageNoCompare(ctx) ==
  LET g == getAddressFromMessage(ctx)
      c == Ran(g.ctx, "generateNonce")
  IN IF g.address = Undefined
       THEN Stop(Throw(c, "TypeError"))
       ELSE Continue([Ran(c, "setAddress") EXCEPT !.address = g.address])

\* verifyMessage: whatever getAddressFromMessage returned goes on to
\* generateNonce, whose address.toLowerCase() throws on undefined
verifyMessage(ctx) ==
  LET g == getAddressFromMessage(ctx)
      c == Ran(g.ctx, "generateNonce")
  IN IF g.address = Undefined
       THEN Stop(Throw(c, "TypeError"))
       ELSE IF c.nonce # generateNonce(g.address)
         THEN Stop(NextErr(Ran(c, "compareNonce"), HttpError("Nonce mismatch", 400)))
         ELSE Continue([Ran(Ran(c, "compareNonce"), "setAddress") EXCEPT !.address = g.address])

\* createJwtToken as it would be with an iat that is not the time of the call
createJwtTokenStaleIat(walletAddress) ==
  Jwt(walletAddress, 0, now + OneDay, JWT_SECRET_KEY)

\* jwt.sign({walletAddress}, key, {expiresIn: '1d'})
createJwtToken(walletAddress) ==
  Jwt(walletAddress, now, now + OneDay, JWT_SECRET_KEY)

issueToken(ctx) ==
  Stop([Ran(Ran(ctx, "createJwtToken"), "send") EXCEPT
          !.status = 200, !.outToken = createJwtToken(ctx.address)])

\* app.post('/verify', ...)
VerifyRoute == <<"validateVerificationParameters", "verifyMessage", "issueToken">>

---------------------------------------------------------------------------
(* The gate: verifyToken, authenticateToken, and the routes behind it *)

\* jwt.verify as it would be if it did not look at exp
JwtVerifyNoExpiry(token) ==
  /\ token.kind = "jwt"
  /\ token.key = JWT_SECRET_KEY

\* jwt.verify(token, key): the HMAC was made with this key and the clock has
\* not reached exp
JwtVerify(token) ==
  /\ token.kind = "jwt"
  /\ token.key = JWT_SECRET_KEY
  /\ now < token.exp

\* verifyToken as it would be if a missing token were reported like a bad one
verifyTokenMissingAsForbidden(authorization) ==
  IF authorization.scheme # "bearer" \/ ~JwtVerify(authorization.token)
    THEN [err |-> HttpError("Forbidden", 403), decoded |-> NoToken]
    ELSE [err |-> NoError, decoded |-> authorization.token]

\* verifyToken: authHeader?.split(' ')[1], 401 when there is none, 403 when
\* jwt.verify reports an error, the decoded payload otherwise
verifyToken(authorization) ==
  IF authorization.scheme # "bearer"
    THEN [err |-> HttpError("Unauthorized", 401), decoded |-> NoToken]
    ELSE IF ~JwtVerify(authorization.token)
      THEN [err |-> HttpError("Forbidden", 403), decoded |-> NoToken]
      ELSE [err |-> NoError, decoded |-> authorization.token]

\* authenticateToken up to its await of contract.isGranted(..): an error of
\* verifyToken goes to next(err), otherwise the oracle is called
authenticateTokenCall(ctx) ==
  LET c == Ran(ctx, "verifyToken")
      v == verifyToken(c.authorization)
  IN IF v.err # NoError
       THEN Stop(NextErr(c, v.err))
       ELSE Continue([Ran(c, "isGranted") EXCEPT !.decoded = v.decoded])

\* the oracle as it would be behind a cache that remembers an admission
OracleIsGrantedCached(address) ==
  \/ address = held.walletAddress /\ "true" \in seen
  \/ address.id \in Wallets /\ isGranted[address.id]

\* what contract.isGranted(address) returns when the call succeeds
OracleIsGranted(address) == address.id \in Wallets /\ isGranted[address.id]

\* the errors a failed contract call rejects with: ethers' errors carry a
\* string code, other errors none
OracleErrors ==
  {[message |-> "missing revert data", code |-> 0, strcode |-> "CALL_EXCEPTION"],
   [message |-> "socket hang up", code |-> 0, strcode |-> ""]}

\* authenticateToken as it would be if its catch answered every error with 401
authenticateTokenReturnDeny(ctx, failure) ==
  IF failure # NoError
    THEN Stop(NextErr([ctx EXCEPT !.oracle = "error"], HttpError("Unauthorized", 401)))
    ELSE IF ~OracleIsGranted(ctx.decoded.walletAddress)
      THEN Stop(NextErr([ctx EXCEPT !.oracle = "false"], HttpError("Unauthorized", 401)))
      ELSE Continue([ctx EXCEPT !.oracle = "true"])

\* authenticateToken as it would be if its catch let the request through
authenticateTokenReturnFailOpen(ctx, failure) ==
  IF failure # NoError
    THEN Continue([ctx EXCEPT !.oracle = "error"])
    ELSE IF ~OracleIsGranted(ctx.decoded.walletAddress)
      THEN Stop(NextErr([ctx EXCEPT !.oracle = "false"], HttpError("Unauthorized", 401)))
      ELSE Continue([ctx EXCEPT !.oracle = "true"])

\* authenticateToken from the oracle's answer on: false throws 401 into the
\* catch, a rejected call lands in the same catch, both go to next(err)
authenticateTokenReturn(ctx, failure) ==
  IF failure # NoError
    THEN Stop(NextErr([ctx EXCEPT !.oracle = "error"], failure))
    ELSE IF ~OracleIsGranted(ctx.decoded.walletAddress)
      THEN Stop(NextErr([ctx EXCEPT !.oracle = "false"], HttpError("Unauthorized", 401)))
      ELSE Continue([ctx EXCEPT !.oracle = "true"])

\* app.get('/protected', authenticateToken, ...)
protectedHandler(ctx) ==
  Stop([Ran(ctx, "send") EXCEPT !.status = 200,
                                !.message = "Hello! You are viewing protected content."])

\* createProxyMiddleware({target: .../api/v0/add}): the storage gateway answers
proxyAdd(ctx) ==
  Stop([Ran(ctx, "proxy") EXCEPT !.status = 200, !.message = "forwarded"])

\* createProxyMiddleware({target: .../api/v0/cat}), mounted without a gate
proxyCat(ctx) ==
  Stop([Ran(ctx, "proxy") EXCEPT !.status = 200, !.message = "forwarded"])

---------------------------------------------------------------------------
(* The admin gate, authenticateAdmin, and the indexing-API routes behind it *)

\* the oracle as it would be if the admin gate asked isGranted
OracleIsAdminAsGranted(address) == address.id \in Wallets /\ isGranted[address.id]

\* what contract.isAdmin(address) returns when the call succeeds
OracleIsAdmin(address) == address.id \in Wallets /\ isAdmin[address.id]

\* authenticateAdmin as it would be if verifyToken were not awaited
authenticateAdminCallNotAwaited(ctx) ==
  Continue([Ran(Ran(ctx, "verifyToken"), "isAdmin") EXCEPT !.decoded = ctx.authorization.token])

\* authenticateAdmin up to its await of contract.isAdmin(..)
authenticateAdminCall(ctx) ==
  LET c == Ran(ctx, "verifyToken")
      v == verifyToken(c.authorization)
  IN IF v.err # NoError
       THEN Stop(NextErr(c, v.err))
       ELSE Continue([Ran(c, "isAdmin") EXCEPT !.decoded = v.decoded])

\* authenticateAdmin from the oracle's answer on
authenticateAdminReturn(ctx, failure) ==
  IF failure # NoError
    THEN Stop(NextErr([ctx EXCEPT !.oracle = "error"], failure))
    ELSE IF ~OracleIsAdmin(ctx.decoded.walletAddress)
      THEN Stop(NextErr([ctx EXCEPT !.oracle = "false"], HttpError("Unauthorized", 401)))
      ELSE Continue([ctx EXCEPT !.oracle = "true"])

\* the handlers of /approved-wallets and /submitted-wallets: the query is
\* written to the indexing API and the handler returns without a response
approvedWalletsHandler(ctx) ==
  Stop([Ran(ctx, "queryTheGraphStudioAPI") EXCEPT !.graph = "pending"])

submittedWalletsHandler(ctx) ==
  Stop([Ran(ctx, "queryTheGraphStudioAPI") EXCEPT !.graph = "pending"])

\* how the HTTPS request of queryTheGraphStudioAPI can end: a body that is
\* JSON, a body that is not, an error before any response arrived (refused
\* connection, failed lookup), an error after the response began
GraphOutcomes == {"json", "nonjson", "connect", "reset"}

\* the callback the two handlers pass to queryTheGraphStudioAPI
walletsCallback(ctx, err, route) ==
  LET c == Ran(ctx, "callback")
  IN IF err
       THEN NextErr(c, HttpError(IF route = "/approved-wallets"
                                   THEN "Error querying approved wallets with TheGraph Studio API"
                                   ELSE "Error querying submitted wallets with TheGraph Studio API",
                                 500))
       ELSE [Ran(c, "send") EXCEPT !.status = 200,
               !.message = IF route = "/approved-wallets" THEN "granted wallets"
                                                          ELSE "pending wallets"]

\* queryTheGraphStudioAPI once the request is out.  The 'end' listener calls
\* callback(null, JSON.parse(data)), and JSON.parse throws on a body that is
\* not JSON before the callback is called.  req.on('error', callback) is
\* registered inside the response callback: an error before a response finds
\* no listener and is thrown, an error after it reaches the callback.
queryTheGraphStudioAPI(ctx, outcome, route) ==
  LET c == [ctx EXCEPT !.graph = outcome]
  IN CASE outcome = "json" -> walletsCallback(Ran(Ran(c, "end"), "JSON.parse"), FALSE, route)
       [] outcome = "nonjson" -> Throw(Ran(Ran(c, "end"), "JSON.parse"), "SyntaxError")
       [] outcome = "connect" -> Throw(c, "Unhandled 'error' event")
       [] outcome = "reset" -> walletsCallback(c, TRUE, route)

---------------------------------------------------------------------------
(* Running a route: each middleware in turn, until one does not call next() *)

Apply(name, ctx) ==
  CASE name = "validateWalletAddress" -> validateWalletAddress(ctx)
    [] name = "transformWalletAddress" -> transformWalletAddress(ctx)
    [] name = "createNonce" -> createNonce(ctx)
    [] name = "validateVerificationParameters" -> validateVerificationParameters(ctx)
    [] name = "verifyMessage" -> verifyMessage(ctx)
    [] name = "issueToken" -> issueToken(ctx)
    [] name = "protectedHandler" -> protectedHandler(ctx)
    [] name = "proxyAdd" -> proxyAdd(ctx)
    [] name = "proxyCat" -> proxyCat(ctx)
    [] name = "approvedWalletsHandler" -> approvedWalletsHandler(ctx)
    [] name = "submittedWalletsHandler" -> submittedWalletsHandler(ctx)

RECURSIVE RunChain(_, _)
RunChain(chain, ctx) ==
  IF chain = <<>>
    THEN ctx
    ELSE LET r == Apply(Head(chain), ctx)
         IN IF r.continue THEN RunChain(Tail(chain), r.ctx) ELSE r.ctx

\* the routes behind authenticateToken and those behind authenticateAdmin,
\* and the middleware behind the gate on each
GatedRoutes == {"/protected", "/api/v0/add"}
AdminRoutes == {"/approved-wallets", "/submitted-wallets"}
AfterGate(route) ==
  CASE route = "/protected" -> <<"protectedHandler">>
    [] route = "/api/v0/add" -> <<"proxyAdd">>
    [] route = "/approved-wallets" -> <<"approvedWalletsHandler">>
    [] route = "/submitted-wallets" -> <<"submittedWalletsHandler">>

\* app.use('/api/v0/cat', createProxyMiddleware(..))
CatRoute == <<"proxyCat">>

---------------------------------------------------------------------------
(* What clients send *)

SignupInputs == {Undefined, NotAnAddress} \cup {Addr(id, f) : id \in Wallets, f \in Forms}

\* every nonce string a client can name: a digest for some wallet and some
\* secret (obtained or guessed), or anything else
NonceInputs ==
  {NoNonce, GarbageNonce} \cup {Sha1(Addr(id, "lower"), s) : id \in Wallets, s \in Secrets}

\* a signature is made with a wallet's key over a nonce string, or is malformed
SigInputs ==
  {NoSig, MalformedSig} \cup {Sig(id, m) : id \in Wallets, m \in NonceInputs \ {NoNonce}}

\* an honest login: the wallet signs the nonce /signup answers it with
Logins ==
  {<<generateNonce(Addr(id, "lower")), Sig(id, generateNonce(Addr(id, "lower")))>> : id \in Wallets}

\* a token signed with a key the server never had
Forged(token) == [token EXCEPT !.key = "evil"]

\* the Authorization headers of a gated request: none, malformed ones, the
\* token the client holds, and forgeries
AuthInputs ==
  {NoHeader, BareHeader, Bearer(EmptyToken), Bearer(GarbageToken)}
    \cup (IF held = NoToken THEN {} ELSE {Bearer(held), Bearer(Forged(held))})

---------------------------------------------------------------------------
(* Actions *)

Init ==
  /\ SECRET = "s1"
  /\ JWT_SECRET_KEY = "k1"
  /\ now = 0
  /\ isGranted = [w \in Wallets |-> FALSE]
  /\ isAdmin = [w \in Wallets |-> FALSE]
  /\ issued = {}
  /\ held = NoToken
  /\ inflight = [req |-> NoRequest, ctx |-> NoResponse]
  /\ seen = {}
  /\ req = NoRequest
  /\ res = NoResponse

Signup(walletAddress) ==
  /\ req' = Request("/signup", walletAddress, NoNonce, NoSig, NoHeader)
  /\ res' = RunChain(SignupRoute, Context(req'))
  /\ issued' = IF res'.outNonce # NoNonce THEN issued \cup {res'.outNonce} ELSE issued
  /\ UNCHANGED <<SECRET, JWT_SECRET_KEY, now, isGranted, isAdmin, held, inflight, seen>>

Verify(nonce, signedMessage) ==
  /\ req' = Request("/verify", Undefined, nonce, signedMessage, NoHeader)
  /\ res' = RunChain(VerifyRoute, Context(req'))
  /\ UNCHANGED <<SECRET, JWT_SECRET_KEY, now, isGranted, isAdmin, issued, held, inflight, seen>>

\* the client keeps the token of the answer it just received
Keep ==
  /\ res.outToken # NoToken
  /\ held # res.outToken
  /\ held' = res.outToken
  /\ seen' = {}
  /\ UNCHANGED <<SECRET, JWT_SECRET_KEY, now, isGranted, isAdmin, issued, inflight, req, res>>

\* a request to a gated route arrives: authenticateToken runs up to the call
\* of the oracle, or answers 401/403
Gate(route, authorization) ==
  /\ inflight.req = NoRequest
  /\ req' = Request(route, Undefined, NoNonce, NoSig, authorization)
  /\ LET r == authenticateTokenCall(Context(req'))
     IN /\ res' = r.ctx
        /\ inflight' = IF r.continue THEN [req |-> req', ctx |-> r.ctx] ELSE inflight
  /\ UNCHANGED <<SECRET, JWT_SECRET_KEY, now, isGranted, isAdmin, issued, held, seen>>

\* the oracle's call returns or fails: authenticateToken resumes, and the
\* route's handler runs when it calls next()
OracleReturn(failure) ==
  /\ inflight.req.route \in GatedRoutes
  /\ req' = inflight.req
  /\ LET r == authenticateTokenReturn(inflight.ctx, failure)
     IN /\ res' = IF r.continue THEN RunChain(AfterGate(inflight.req.route), r.ctx) ELSE r.ctx
        /\ seen' = IF failure = NoError /\ inflight.ctx.decoded = held
                     THEN seen \cup {r.ctx.oracle}
                     ELSE seen
  /\ inflight' = [req |-> NoRequest, ctx |-> NoResponse]
  /\ UNCHANGED <<SECRET, JWT_SECRET_KEY, now, isGranted, isAdmin, issued, held>>

\* a request to /api/v0/cat arrives and is forwarded
Cat(authorization) ==
  /\ req' = Request("/api/v0/cat", Undefined, NoNonce, NoSig, authorization)
  /\ res' = RunChain(CatRoute, Context(req'))
  /\ UNCHANGED <<SECRET, JWT_SECRET_KEY, now, isGranted, isAdmin, issued, held, inflight, seen>>

\* a request to an admin route arrives: authenticateAdmin runs up to the call
\* of the oracle, or answers 401/403
AdminGate(route, authorization) ==
  /\ inflight.req = NoRequest
  /\ req' = Request(route, Undefined, NoNonce, NoSig, authorization)
  /\ LET r == authenticateAdminCall(Context(req'))
     IN /\ res' = r.ctx
        /\ inflight' = IF r.continue THEN [req |-> req', ctx |-> r.ctx] ELSE inflight
  /\ UNCHANGED <<SECRET, JWT_SECRET_KEY, now, isGranted, isAdmin, issued, held, seen>>

\* the oracle's isAdmin call returns or fails: authenticateAdmin resumes, and
\* on next() the handler sends its query to the indexing API
AdminOracleReturn(failure) ==
  /\ inflight.req.route \in AdminRoutes
  /\ inflight.ctx.oracle = ""
  /\ req' = inflight.req
  /\ LET r == authenticateAdminReturn(inflight.ctx, failure)
     IN /\ res' = IF r.continue THEN RunChain(AfterGate(inflight.req.route), r.ctx) ELSE r.ctx
        /\ inflight' = IF r.continue THEN [req |-> inflight.req, ctx |-> res']
                                     ELSE [req |-> NoRequest, ctx |-> NoResponse]
  /\ UNCHANGED <<SECRET, JWT_SECRET_KEY, now, isGranted, isAdmin, issued, held, seen>>

\* the HTTPS request to the indexing API ends
GraphReturn(outcome) ==
  /\ inflight.req.route \in AdminRoutes
  /\ inflight.ctx.graph = "pending"
  /\ req' = inflight.req
  /\ res' = queryTheGraphStudioAPI(inflight.ctx, outcome, inflight.req.route)
  /\ inflight' = [req |-> NoRequest, ctx |-> NoResponse]
  /\ UNCHANGED <<SECRET, JWT_SECRET_KEY, now, isGranted, isAdmin, issued, held, seen>>

\* the admin role changes on chain
SetAdmin(w, b) ==
  /\ isAdmin[w] # b
  /\ isAdmin' = [isAdmin EXCEPT ![w] = b]
  /\ req' = NoRequest /\ res' = NoResponse
  /\ UNCHANGED <<SECRET, JWT_SECRET_KEY, now, isGranted, issued, held, inflight, seen>>

\* the allow-list changes on chain
SetGranted(w, b) ==
  /\ isGranted[w] # b
  /\ isGranted' = [isGranted EXCEPT ![w] = b]
  /\ req' = NoRequest /\ res' = NoResponse
  /\ UNCHANGED <<SECRET, JWT_SECRET_KEY, now, isAdmin, issued, held, inflight, seen>>

\* the operator restarts the server with another nonce secret
RotateSecret(s) ==
  /\ s # SECRET
  /\ SECRET' = s
  /\ req' = NoRequest /\ res' = NoResponse
  /\ UNCHANGED <<JWT_SECRET_KEY, now, isGranted, isAdmin, issued, held, inflight, seen>>

\* the operator restarts the server with another token-signing key
RotateKey(k) ==
  /\ k # JWT_SECRET_KEY
  /\ JWT_SECRET_KEY' = k
  /\ req' = NoRequest /\ res' = NoResponse
  /\ UNCHANGED <<SECRET, now, isGranted, isAdmin, issued, held, inflight, seen>>

\* time passes to the next instant the clock is observed at
Tick ==
  /\ \E t \in ClockPoints : t > now
  /\ now' = CHOOSE t \in ClockPoints : t > now /\ \A u \in ClockPoints : u > now => t <= u
  /\ req' = NoRequest /\ res' = NoResponse
  /\ UNCHANGED <<SECRET, JWT_SECRET_KEY, isGranted, isAdmin, issued, held, inflight, seen>>

\* the authenticator under every input, with its secrets and the clock
NextAuth ==
  \/ \E a \in SignupInputs : Signup(a)
  \/ \E n \in NonceInputs, s \in SigInputs : Verify(n, s)
  \/ \E s \in Secrets : RotateSecret(s)
  \/ \E k \in Keys : RotateKey(k)
  \/ Tick

SpecAuth == Init /\ [][NextAuth]_vars

\* the gate under every header, with honest logins, the ledger, the key and
\* the clock
NextGate ==
  \/ \E l \in Logins : Verify(l[1], l[2])
  \/ Keep
  \/ \E r \in GatedRoutes, h \in AuthInputs : Gate(r, h)
  \/ \E f \in OracleErrors \cup {NoError} : OracleReturn(f)
  \/ \E w \in Wallets, b \in BOOLEAN : SetGranted(w, b)
  \/ \E k \in Keys : RotateKey(k)
  \/ Tick

SpecGate == Init /\ [][NextGate]_vars

\* The two proxied routes: uploads behind the granted-gate, reads in the open
NextProxy ==
  \/ \E l \in Logins : Verify(l[1], l[2])
  \/ Keep
  \/ \E h \in AuthInputs : Gate("/api/v0/add", h)
  \/ \E f \in OracleErrors \cup {NoError} : OracleReturn(f)
  \/ \E h \in AuthInputs : Cat(h)
  \/ \E w \in Wallets, b \in BOOLEAN : SetGranted(w, b)
  \/ Tick

SpecProxy == Init /\ [][NextProxy]_vars

\* the wallets whose roles change on chain while both gates are exercised;
\* the other wallets stay without a role
RoleHolders == {"A"}

\* both gates under every header, with honest logins, both ledgers, the
\* indexing API and the clock
NextAdmin ==
  \/ \E l \in Logins : Verify(l[1], l[2])
  \/ Keep
  \/ \E r \in GatedRoutes, h \in AuthInputs : Gate(r, h)
  \/ \E f \in OracleErrors \cup {NoError} : OracleReturn(f)
  \/ \E r \in AdminRoutes, h \in AuthInputs : AdminGate(r, h)
  \/ \E f \in OracleErrors \cup {NoError} : AdminOracleReturn(f)
  \/ \E o \in GraphOutcomes : GraphReturn(o)
  \/ \E w \in RoleHolders, b \in BOOLEAN : SetGranted(w, b)
  \/ \E w \in RoleHolders, b \in BOOLEAN : SetAdmin(w, b)
  \/ Tick

SpecAdmin == Init /\ [][NextAdmin]_vars

---------------------------------------------------------------------------
(* Properties of the authenticator, checked under SpecAuth *)

\* the step just taken handled a POST /verify with both fields present
VerifyAnswered == req.route = "/verify" /\ req.nonce # NoNonce /\ req.signedMessage # NoSig

\* the nonce string POST /signup answers a wallet with under a given secret
NonceOf(id, secret) == Sha1(Addr(id, "lower"), secret)

\* position of the first occurrence of a step in what ran, 0 when it did not run
StepAt(step) ==
  IF \E i \in 1..Len(res.steps) : res.steps[i] = step
    THEN CHOOSE i \in 1..Len(res.steps) :
           res.steps[i] = step /\ \A j \in 1..(i - 1) : res.steps[j] # step
    ELSE 0

\* C1: POST /verify answers with a token only when the supplied nonce equals the
\* nonce recomputed, with the current secret, for the address recovered from the
\* signature; whenever both fields are present and recovery succeeds but the
\* nonces differ, the answer is 400 "Nonce mismatch" and carries no token.
C1_TokenOnlyOnNonceMatch ==
  /\ (req.route = "/verify" /\ res.outToken # NoToken) =>
        /\ req.signedMessage.kind = "sig"
        /\ req.nonce = NonceOf(Recover(req.nonce, req.signedMessage).id, SECRET)
        /\ res.status = 200
  /\ (VerifyAnswered /\ req.signedMessage.kind = "sig") =>
        IF req.nonce = NonceOf(Recover(req.nonce, req.signedMessage).id, SECRET)
          THEN res.status = 200 /\ res.outToken # NoToken
          ELSE res.status = 400 /\ res.message = "Nonce mismatch" /\ res.outToken = NoToken

\* a nonce of the rotated secret, signed by its wallet, is answered with a token
\* after earlier requests were answered
C1_Witness ==
  /\ VerifyAnswered
  /\ SECRET = "s2"
  /\ issued # {}
  /\ res.status = 200
  /\ res.outToken.kind = "jwt"

C3_ImpersonationRejected ==
  (/\ VerifyAnswered
   /\ req.nonce.kind = "sha1"
   /\ req.signedMessage.kind = "sig"
   /\ req.signedMessage.msg = req.nonce
   /\ req.signedMessage.signer # req.nonce.id) =>
      /\ res.status = 400
      /\ res.message = "Nonce mismatch"
      /\ res.outToken = NoToken

\* B signed the nonce /signup currently answers A with, and was refused
C3_Witness ==
  /\ VerifyAnswered
  /\ req.nonce = NonceOf("A", SECRET)
  /\ req.nonce \in issued
  /\ req.signedMessage = Sig("B", req.nonce)
  /\ res.status = 400

\* C4: when signature recovery fails, the request is answered 400 "Failed to
\* verify message", nothing of the handler runs after the error continuation
\* and no exception leaves the handler.
C4_RecoveryFailureShortCircuits ==
  (VerifyAnswered /\ req.signedMessage.kind = "malformed") =>
      /\ res.status = 400
      /\ res.message = "Failed to verify message"
      /\ res.steps[Len(res.steps)] = "errorHandler"
      /\ StepAt("generateNonce") = 0
      /\ res.uncaught = ""

\* C9: a nonce that POST /signup issued under a secret that is no longer the
\* current one, submitted with its wallet's signature over it, is answered
\* 400 "Nonce mismatch" without a token, whichever the wallet.
C9_StaleNonceRejected ==
  (/\ VerifyAnswered
   /\ req.nonce \in issued
   /\ req.nonce.secret # SECRET
   /\ req.signedMessage = Sig(req.nonce.id, req.nonce)) =>
      /\ res.status = 400
      /\ res.message = "Nonce mismatch"
      /\ res.outToken = NoToken

\* both wallets' nonces were issued, the secret was rotated, and one of them
\* was refused with its owner's signature
C9_Witness ==
  /\ VerifyAnswered
  /\ \A id \in Wallets : \E n \in issued : n.id = id /\ n.secret # SECRET
  /\ req.nonce \in issued
  /\ req.nonce.secret # SECRET
  /\ req.signedMessage = Sig(req.nonce.id, req.nonce)
  /\ res.status = 400

\* C10: POST /signup answers 400 without a nonce when walletAddress is absent
\* or no syntactically valid address, and otherwise lowercases the address and
\* answers 200 with the nonce of the lowercase address; validation runs before
\* the lowercasing and the computation of the nonce.
C10_SignupValidatesThenNormalizes ==
  req.route = "/signup" =>
    /\ StepAt("validateWalletAddress") = 1
    /\ IF req.walletAddress.id \in Wallets /\ req.walletAddress.form # "badsum"
         THEN /\ res.status = 200
              /\ res.walletAddress = Addr(req.walletAddress.id, "lower")
              /\ res.outNonce = Sha1(Addr(req.walletAddress.id, "lower"), SECRET)
              /\ StepAt("validateWalletAddress") < StepAt("transformWalletAddress")
              /\ StepAt("transformWalletAddress") < StepAt("generateNonce")
         ELSE /\ res.status = 400
              /\ res.message \in {"Missing wallet address", "Invalid wallet address"}
              /\ (req.walletAddress = Undefined <=> res.message = "Missing wallet address")
              /\ res.outNonce = NoNonce
              /\ StepAt("transformWalletAddress") = 0
              /\ StepAt("generateNonce") = 0

\* an address in uppercase was answered with the nonce of its lowercase form
C10_Witness ==
  /\ req.route = "/signup"
  /\ req.walletAddress = Addr("A", "upper")
  /\ res.status = 200
  /\ res.outNonce = Sha1(Addr("A", "lower"), SECRET)

\* C11: the nonce does not depend on the letter case of the address, and
\* POST /signup answers the same address, in any letter case and among any
\* other requests, with the same nonce for as long as the secret is the same.
C11_NonceCaseInsensitiveAndStable ==
  /\ \A id \in Wallets, f \in {"lower", "upper", "checksum"} :
        generateNonce(Addr(id, f)) = generateNonce(ToLowerCase(Addr(id, f)))
  /\ (req.route = "/signup" /\ res.status = 200) =>
        /\ res.outNonce = generateNonce(req.walletAddress)
        /\ \A n \in issued :
              (n.id = req.walletAddress.id /\ n.secret = SECRET) => n = res.outNonce

\* B asked again, in mixed case, after nonces were issued under both secrets
C11_Witness ==
  /\ req.route = "/signup"
  /\ req.walletAddress = Addr("B", "checksum")
  /\ res.status = 200
  /\ \E n \in issued : n.id = "B" /\ n.secret # SECRET
  /\ \E n \in issued : n.id = "A" /\ n.secret = SECRET

\* C12: POST /verify answers 400 when nonce or signedMessage is missing, and
\* then no signature is recovered, no nonce recomputed and no token issued.
C12_VerifyMissingFieldIsInvalidInput ==
  (req.route = "/verify" /\ (req.nonce = NoNonce \/ req.signedMessage = NoSig)) =>
    /\ res.status = 400
    /\ res.message = IF req.nonce = NoNonce THEN "Nonce not provided"
                                            ELSE "Signed message not provided"
    /\ StepAt("getAddressFromMessage") = 0
    /\ StepAt("generateNonce") = 0
    /\ StepAt("createJwtToken") = 0
    /\ res.outToken = NoToken

\* a request with a nonce of the current secret and no signedMessage
C12_Witness ==
  /\ req.route = "/verify"
  /\ req.nonce = NonceOf("A", SECRET)
  /\ req.signedMessage = NoSig
  /\ res.status = 400

---------------------------------------------------------------------------
(* Properties of the gate, checked under SpecGate *)

\* the step just taken ran the token validation of a gated request
TokenChecked == req.route \in GatedRoutes /\ res.oracle = ""

\* the step just taken resumed a gated request with the oracle's answer
OracleAnswered == req.route \in GatedRoutes /\ res.oracle \in {"true", "false"}

\* the route's handler or forward ran
Admitted == StepAt("send") # 0 \/ StepAt("proxy") # 0

\* C5: on a gated route a request without a bearer token is answered 401, one
\* whose token has an invalid signature or has expired is answered 403, and
\* only a token with a valid signature and not expired hands its decoded
\* claims to the next step; exactly one of the three happens.
C5_TokenValidationOutcomes ==
  TokenChecked =>
    LET h == req.authorization
        valid == /\ h.token.kind = "jwt"
                 /\ h.token.key = JWT_SECRET_KEY
                 /\ now < h.token.exp
    IN /\ res.status \in {0, 401, 403}
       /\ res.status = 401 <=> h.scheme # "bearer"
       /\ res.status = 403 <=> (h.scheme = "bearer" /\ ~valid)
       /\ res.status = 0 <=> (h.scheme = "bearer" /\ valid)
       /\ res.status = 0 => res.decoded = h.token /\ StepAt("isGranted") = Len(res.steps)
       /\ res.status # 0 => res.decoded = NoToken /\ StepAt("isGranted") = 0

\* the token the client holds was answered 403 once it had expired
C5_Witness ==
  /\ TokenChecked
  /\ req.authorization = Bearer(held)
  /\ held.key = JWT_SECRET_KEY
  /\ now >= held.exp
  /\ res.status = 403

\* C6: the granted-gate decides by what the oracle's isGranted returns for the
\* token's address at the time of the request: the request is admitted exactly
\* when it is true then and answered 401 when it is false, whatever the answers
\* to earlier requests with the same token were.
C6_GateFollowsOracleEveryRequest ==
  OracleAnswered =>
    LET w == res.decoded.walletAddress.id
    IN /\ w \in Wallets
       /\ res.oracle = "true" <=> isGranted[w]
       /\ isGranted[w] => res.status = 200 /\ Admitted
       /\ ~isGranted[w] => res.status = 401 /\ ~Admitted

\* a request with the held token is answered 401 after an earlier request with
\* the same token was admitted
C6_Witness ==
  /\ OracleAnswered
  /\ res.decoded = held
  /\ "true" \in seen
  /\ res.oracle = "false"
  /\ res.status = 401

\* C7: when the oracle's call fails, the request is not admitted and is
\* answered 500, not the 401 of a denial.
C7_OracleFailureIsNotDenial ==
  (req.route \in GatedRoutes /\ res.oracle = "error") =>
    /\ res.status = 500
    /\ ~Admitted

\* the call failed with an error carrying a string code, for a wallet the
\* ledger does not grant
C7_Witness ==
  /\ req.route \in GatedRoutes
  /\ res.oracle = "error"
  /\ res.error.strcode = "CALL_EXCEPTION"
  /\ ~isGranted[res.decoded.walletAddress.id]
  /\ res.status = 500

\* the token validation of the held token, by the clock alone
ExpiryDecides ==
  (TokenChecked /\ req.authorization = Bearer(held)) =>
    /\ now < held.iat + OneDay => res.status = 0
    /\ now > held.iat + OneDay => res.status = 403

\* C8 as stated: a token passes validation at any time before issuedAt + 1 day
\* and is answered 403 at any time after, and nothing but time ends its validity.
C8_OnlyTimeEndsValidity ==
  /\ (req.route = "/verify" /\ res.outToken # NoToken) =>
        res.outToken.iat = now /\ res.outToken.exp = now + OneDay
  /\ ExpiryDecides

\* C8, amended: a token's expiry is issuedAt + 1 day; while the signing key is
\* the one it was signed with, it passes validation at any time before that and
\* is answered 403 at any time after, whatever the oracle answers and however
\* often it was accepted; after a change of the signing key it is answered 403.
C8_ExpiryOneDayUnderSameKey ==
  /\ (req.route = "/verify" /\ res.outToken # NoToken) =>
        res.outToken.iat = now /\ res.outToken.exp = now + OneDay
  /\ held # NoToken => held.exp = held.iat + OneDay
  /\ held.key = JWT_SECRET_KEY => ExpiryDecides
  /\ (TokenChecked /\ req.authorization = Bearer(held) /\ held.key # JWT_SECRET_KEY) =>
        res.status = 403

\* a token that was admitted before is answered 403 after its day, though the
\* key is unchanged and the ledger still grants its wallet
C8_Witness ==
  /\ TokenChecked
  /\ req.authorization = Bearer(held)
  /\ held.key = JWT_SECRET_KEY
  /\ "true" \in seen
  /\ isGranted[held.walletAddress.id]
  /\ now > held.iat + OneDay
  /\ res.status = 403

\* how often a step ran
Count(step) == Cardinality({i \in 1..Len(res.steps) : res.steps[i] = step})

\* a wallet that holds a token of an earlier /verify sends the same
\* (nonce, signedMessage) to /verify again
RepeatedVerify ==
  /\ held.kind = "jwt"
  /\ \E l \in Logins : l[2].signer = held.walletAddress.id /\ Verify(l[1], l[2])

C17_AddForwardedOnlyBehindGate ==
  /\ (req.route = "/api/v0/add" /\ StepAt("proxy") # 0) =>
        /\ res.oracle = "true"
        /\ res.decoded.kind = "jwt"
        /\ res.decoded = req.authorization.token
        /\ StepAt("verifyToken") = 1
        /\ StepAt("isGranted") = 2
        /\ StepAt("proxy") = 3
  /\ (req.route = "/api/v0/add" /\ (res.oracle \in {"false", "error"} \/ res.status \in {401, 403}))
        => StepAt("proxy") = 0
  /\ req.route = "/api/v0/cat" =>
        /\ res.steps = <<"proxy">>
        /\ res.oracle = ""
        /\ res.decoded = NoToken

\* an upload was forwarded for the held token of a granted wallet
C17_Witness ==
  /\ req.route = "/api/v0/add"
  /\ req.authorization = Bearer(held)
  /\ res.oracle = "true"
  /\ res.steps = <<"verifyToken", "isGranted", "proxy">>

\* C15: every error reaches the responder, which answers with the error's
\* numeric code as the status and, for an error without one, with 500 and a
\* message that is not the error's own.
C15_ResponderHidesUncodedErrors ==
  /\ res.uncaught = ""
  /\ (req.route # "" /\ res.error # NoError) =>
        /\ StepAt("errorHandler") # 0
        /\ res.error.code # 0 => res.status = res.error.code
        /\ res.error.code = 0 => res.status = 500 /\ res.message # res.error.message

---------------------------------------------------------------------------
(* Properties of the admin gate and the indexing API, checked under SpecAdmin *)

\* the step just taken resumed an admin request with the oracle's answer
AdminAnswered ==
  req.route \in AdminRoutes /\ res.oracle \in {"true", "false"} /\ res.graph \in {"", "pending"}

\* C13: /approved-wallets and /submitted-wallets query the indexing API, and
\* return its data, only for a valid token for whose address isAdmin returned
\* true at the request; a wallet that is granted but no admin is answered 401
\* and the indexing API is not queried.
C13_AdminGateDecidesOnIsAdmin ==
  req.route \in AdminRoutes =>
    LET w == res.decoded.walletAddress.id
        queried == StepAt("queryTheGraphStudioAPI") # 0
    IN /\ queried => /\ res.oracle = "true"
                     /\ res.decoded.kind = "jwt"
                     /\ res.decoded = req.authorization.token
       /\ res.status = 200 => queried /\ res.graph = "json"
       /\ AdminAnswered => /\ w \in Wallets
                           /\ res.oracle = "true" <=> isAdmin[w]
                           /\ isAdmin[w] => queried /\ res.status = 0
                           /\ ~isAdmin[w] => res.status = 401 /\ ~queried

\* a wallet that is granted but no admin was answered 401 without a query
C13_Witness ==
  /\ AdminAnswered
  /\ isGranted[res.decoded.walletAddress.id]
  /\ ~isAdmin[res.decoded.walletAddress.id]
  /\ res.status = 401
  /\ StepAt("queryTheGraphStudioAPI") = 0

\* C14: however the request to the indexing API ends, the adapter calls its
\* callback exactly once: with the parsed JSON after the whole body arrived,
\* answered 200, or with an error on a transport error or a body that is not
\* JSON, answered 500.
C14_AdapterCallsBackOnce ==
  (req.route \in AdminRoutes /\ res.graph \in GraphOutcomes) =>
    /\ Count("callback") = 1
    /\ res.uncaught = ""
    /\ res.graph = "json" => res.status = 200 /\ StepAt("end") < StepAt("callback")
    /\ res.graph # "json" => res.status = 500

\* the oracle's step of the gate of the route
OracleStep == IF req.route \in AdminRoutes THEN "isAdmin" ELSE "isGranted"

\* the handler, the forward or the query behind the gate ran
BehindGate ==
  StepAt("send") # 0 \/ StepAt("proxy") # 0 \/ StepAt("queryTheGraphStudioAPI") # 0

\* C19: in both gates the oracle is called only after the token validation
\* succeeded: a missing, invalid or expired token is answered 401 or 403
\* without an oracle call, and what is behind the gate runs only after the
\* token check and then the oracle check passed.
C19_OracleOnlyAfterTokenValidation ==
  req.route \in GatedRoutes \cup AdminRoutes =>
    LET h == req.authorization
    IN /\ StepAt("verifyToken") = 1
       /\ StepAt(OracleStep) # 0 =>
             /\ StepAt(OracleStep) = 2
             /\ h.scheme = "bearer" /\ h.token.kind = "jwt" /\ h.token.key = JWT_SECRET_KEY
             /\ res.decoded = h.token
       /\ (res.oracle = "" /\ res.status # 0) =>
             /\ res.status \in {401, 403}
             /\ StepAt("isGranted") = 0 /\ StepAt("isAdmin") = 0
       /\ (res.oracle = "" /\ (h.scheme # "bearer" \/ h.token.kind # "jwt" \/ now >= h.token.exp)) =>
             /\ res.status \in {401, 403}
             /\ StepAt("isGranted") = 0 /\ StepAt("isAdmin") = 0
       /\ BehindGate =>
             /\ res.oracle = "true"
             /\ StepAt(OracleStep) = 2
             /\ \A i \in 1..Len(res.steps) :
                   res.steps[i] \in {"send", "proxy", "queryTheGraphStudioAPI"} => i > 2

\* an expired token on an admin route is answered 403 and isAdmin is not called
C19_Witness ==
  /\ req.route \in AdminRoutes
  /\ req.authorization = Bearer(held)
  /\ now >= held.exp
  /\ res.status = 403
  /\ StepAt("isAdmin") = 0

---------------------------------------------------------------------------
(* Properties stated of every route *)

\* C18: every address that is hashed into a nonce, written into a token or
\* handed to the oracle is in lowercase.
C18_AddressesLowercaseEverywhere ==
  /\ res.outNonce # NoNonce => res.outNonce.form = "lower"
  /\ res.outToken # NoToken => res.outToken.walletAddress.form = "lower"
  /\ res.oracle # "" => res.decoded.walletAddress.form = "lower"

\* C20: every request is answered exactly once, by its handler or by the
\* responder, and no exception is left unhandled.
C20_ExactlyOneResponse ==
  (req.route # "" /\ inflight.req # req) =>
    /\ res.status # 0
    /\ Count("send") + Count("errorHandler") = 1
    /\ res.uncaught = ""

====
